---- MODULE Spec2Model ----
(***************************************************************************)
(* Entity classification and relevance filtering of Maskedxxx/dup_ai.      *)
(*                                                                         *)
(* Strings are sequences of one-character strings (<<>> is "").  A cell of *)
(* a DataFrame column is a record [kind, s]: kind "str" carries the string *)
(* s, kind "nan" is NaN/None, kind "num" a number, kind "list" an          *)
(* unhashable object.  A DataFrame is [has_column, rows]; each row keeps   *)
(* its index label idx, the cell of the designated column (name) and the   *)
(* project_type cell used by the risk category filter (category).          *)
(***************************************************************************)
EXTENDS Integers, Sequences, FiniteSets, TLC

VARIABLES
    items_list,   \* BaseClassifierService.items_list of each classifier instance
    call,         \* the last direct call on a classifier: operation, argument, outcome
    container,    \* Container._instances[RiskClassifierService]: 0 or the instance
    started,      \* number of requests received so far
    req           \* per request slot: the position and locals of Pipeline.process

vars == <<items_list, call, container, started, req>>

-----------------------------------------------------------------------------
(* Bounds of the model.                                                    *)

MaxRows == 2        \* rows of a DataFrame
MaxScore == 1       \* score levels 0..MaxScore stand for the floats of [0, 1]
MaxRequests == 2    \* requests served (and instances a container could hand out)
MaxLen == 4         \* characters of a vocabulary entry in the round trip

(* Program constants.                                                      *)

MaxMatches == 3     \* top_matches max_items

-----------------------------------------------------------------------------
(* Strings.                                                                *)

Hash == "#"
EmptyStr == <<>>

\* The strings a designated column holds in the model: "", "a", "b", "#a".
ColumnStrings == {<<>>, <<"a">>, <<"b">>, <<"#", "a">>}

StrCell(s) == [kind |-> "str", s |-> s]
NanCell == [kind |-> "nan", s |-> <<>>]
NumCell == [kind |-> "num", s |-> <<>>]
ListCell == [kind |-> "list", s |-> <<>>]

Cells == {StrCell(s) : s \in ColumnStrings} \cup {NanCell, NumCell, ListCell}

RECURSIVE LStrip(_)
LStrip(s) ==
    IF s # <<>> /\ Head(s) = Hash THEN LStrip(Tail(s)) ELSE s

RECURSIVE RStrip(_)
RStrip(s) ==
    IF s # <<>> /\ s[Len(s)] = Hash THEN RStrip(SubSeq(s, 1, Len(s) - 1)) ELSE s

\* str.strip('#'): every leading and every trailing '#' is removed.
StripHash(s) == RStrip(LStrip(s))

\* f"#{item}#" for every item.
preprocess_items_with_hashtags(items) ==
    [i \in DOMAIN items |-> <<Hash>> \o items[i] \o <<Hash>>]

remove_hashtag_separators(item_with_hashtags) ==
    IF item_with_hashtags = <<>>
    THEN item_with_hashtags
    ELSE StripHash(item_with_hashtags)

-----------------------------------------------------------------------------
(* DataFrames.                                                             *)

Range(f) == {f[i] : i \in DOMAIN f}

\* A freshly loaded frame has the RangeIndex 0..n-1 as its row labels.
MakeRows(names, cats) ==
    [i \in DOMAIN names |->
        [idx |-> i - 1, name |-> names[i], category |-> cats[i], valid |-> TRUE]]

Categories == {"niokr", "manufacturing"}

\* Frames whose designated column exists, all rows of one category.
FramesWithColumn(cells, maxRows) ==
    {[has_column |-> TRUE,
      rows |-> MakeRows(names, [i \in DOMAIN names |-> "niokr"])] :
        names \in UNION {[1..n -> cells] : n \in 0..maxRows}}

\* Frames without the designated column: the rows carry no value for it.
FramesWithoutColumn(maxRows) ==
    {[has_column |-> FALSE,
      rows |-> MakeRows([i \in 1..n |-> NanCell], [i \in 1..n |-> "niokr"])] :
        n \in 0..maxRows}

ClassifierFrames == FramesWithColumn(Cells, MaxRows) \cup FramesWithoutColumn(MaxRows)

NoFrame == [has_column |-> FALSE, rows |-> <<>>]

ColumnCells(df) == [i \in DOMAIN df.rows |-> df.rows[i].name]

-----------------------------------------------------------------------------
(* BaseClassifierService.load_items                                        *)

IsNa(c) == c.kind = "nan"

\* Series.dropna(): the cells that are not NaN/None, in order.
DropNa(cells) == SelectSeq(cells, LAMBDA c : ~IsNa(c))

\* Series.unique(): first occurrences, in order of appearance.
RECURSIVE Unique(_, _)
Unique(cells, seen) ==
    IF cells = <<>> THEN <<>>
    ELSE IF Head(cells) \in seen
         THEN Unique(Tail(cells), seen)
         ELSE <<Head(cells)>> \o Unique(Tail(cells), seen \cup {Head(cells)})

\* unique() hashes the values: an unhashable cell raises TypeError.
UniqueRaises(cells) == \E i \in DOMAIN cells : cells[i].kind = "list"

\* [item for item in unique_items if item and isinstance(item, str)]
NonEmptyStrings(cells) ==
    LET kept == SelectSeq(cells, LAMBDA c : c.kind = "str" /\ c.s # <<>>)
    IN  [i \in DOMAIN kept |-> kept[i].s]

\* The value of self.items_list after load_items(df): assigned only on the
\* path where the column exists and the extraction does not raise.
load_items(old_items, df) ==
    IF df.has_column
    THEN IF UniqueRaises(DropNa(ColumnCells(df)))
         THEN old_items
         ELSE NonEmptyStrings(Unique(DropNa(ColumnCells(df)), {}))
    ELSE old_items

\* The list load_items returns to its caller.
load_items_returned(df) ==
    IF df.has_column /\ ~UniqueRaises(DropNa(ColumnCells(df)))
    THEN NonEmptyStrings(Unique(DropNa(ColumnCells(df)), {}))
    ELSE <<>>

-----------------------------------------------------------------------------
(* BaseClassifierService._create_dynamic_classification_model and the      *)
(* structured completion of LLMClient                                      *)

\* The placeholder entry used for an empty list (line 120 of the source).
NoData == <<"no data">>

Scores == 0..MaxScore

\* The response model: top_matches holds 1..3 matches whose item is one of the
\* '#'-wrapped vocabulary entries (Literal) and whose score lies in [0, 1].
create_dynamic_classification_model(items) ==
    LET used == IF items = <<>> THEN <<NoData>> ELSE items
    IN  [literal |-> Range(preprocess_items_with_hashtags(used)),
         min_items |-> 1,
         max_items |-> MaxMatches]

Conforms(top_matches, response_model) ==
    /\ Len(top_matches) >= response_model.min_items
    /\ Len(top_matches) <= response_model.max_items
    /\ \A i \in DOMAIN top_matches :
           /\ top_matches[i].item \in response_model.literal
           /\ top_matches[i].score \in Scores

\* What the generation backend may do with one request.
WrappedStrings == {<<Hash>> \o s \o <<Hash>> : s \in ColumnStrings \ {<<>>}}

RawMatches == [item : WrappedStrings, score : Scores]

RawReplies == UNION {[1..n -> RawMatches] : n \in 0..MaxMatches}

Backends ==
    {[kind |-> k, top_matches |-> <<>>] : k \in {"no_client", "raise", "unparsed"}}
    \cup {[kind |-> "parsed", top_matches |-> m] : m \in RawReplies}

NoBackend == [kind |-> "none", top_matches |-> <<>>]

NoneResult == [is_none |-> TRUE, raised |-> FALSE, top_matches |-> <<>>]

\* LLMClient.generate_structured_completion: None without a client, None when
\* the call or the parse against response_model raises, None when the
\* message carries no parsed object, the parsed object otherwise.
generate_structured_completion(response_model, backend) ==
    IF backend.kind = "parsed" /\ Conforms(backend.top_matches, response_model)
    THEN [is_none |-> FALSE, raised |-> FALSE, top_matches |-> backend.top_matches]
    ELSE NoneResult

-----------------------------------------------------------------------------
(* BaseClassifierService.classify                                          *)

\* PromptBuilder.build_classification_prompt(question, items, item_type): the
\* prompt text is external content; building it has no outcome but the text.
\* (src/app/utils/prompt_builder.py holds only the two-parameter
\* build_classification_prompt(question, work_types) of the contractor
\* classifier, which does not accept the keywords classify passes.)
build_classification_prompt(items) == [system |-> items, user |-> items]

\* max(top_matches, key=score) keeping the last of the equal maxima.
RECURSIVE MaxLastWins(_, _)
MaxLastWins(matches, best) ==
    IF matches = <<>> THEN best
    ELSE MaxLastWins(Tail(matches),
                     IF Head(matches).score >= best.score THEN Head(matches) ELSE best)

\* max(top_matches, key=lambda x: x.score): the first of the maxima.
RECURSIVE MaxByScore(_, _)
MaxByScore(matches, best) ==
    IF matches = <<>> THEN best
    ELSE MaxByScore(Tail(matches),
                    IF Head(matches).score > best.score THEN Head(matches) ELSE best)

ClassifyOut(ret, raised, llm_calls) ==
    [ret |-> ret, raised |-> raised, llm_calls |-> llm_calls]

\* classify without the early return on an empty vocabulary.
classify_unguarded(items, backend) ==
    LET response_model == create_dynamic_classification_model(items)
        result == generate_structured_completion(response_model, backend)
    IN  IF result.raised THEN ClassifyOut(<<>>, FALSE, 1)
        ELSE IF ~result.is_none /\ result.top_matches # <<>>
             THEN ClassifyOut(
                      remove_hashtag_separators(
                          MaxByScore(Tail(result.top_matches),
                                     Head(result.top_matches)).item),
                      FALSE, 1)
             ELSE ClassifyOut(<<>>, FALSE, 1)

\* classify calling the backend a second time when the first call gave no
\* candidates.
classify_retrying(items, backend) ==
    IF items = <<>> THEN ClassifyOut(<<>>, FALSE, 0)
    ELSE
        LET response_model == create_dynamic_classification_model(items)
            result == generate_structured_completion(response_model, backend)
        IN  IF ~result.is_none /\ result.top_matches # <<>>
            THEN ClassifyOut(
                     remove_hashtag_separators(
                         MaxByScore(Tail(result.top_matches),
                                    Head(result.top_matches)).item),
                     FALSE, 1)
            ELSE ClassifyOut(<<>>, FALSE, 2)

\* classify(question): the returned string, whether it raised, and how often
\* it called the generation backend.
classify(items, backend) ==
    IF items = <<>> THEN ClassifyOut(<<>>, FALSE, 0)
    ELSE
        LET response_model == create_dynamic_classification_model(items)
            prompts == build_classification_prompt(items)
            result == generate_structured_completion(response_model, backend)
        IN  IF result.raised THEN ClassifyOut(<<>>, FALSE, 1)
            ELSE IF ~result.is_none /\ result.top_matches # <<>>
                 THEN ClassifyOut(
                          remove_hashtag_separators(
                              MaxByScore(Tail(result.top_matches),
                                         Head(result.top_matches)).item),
                          FALSE, 1)
                 ELSE ClassifyOut(<<>>, FALSE, 1)

-----------------------------------------------------------------------------
(* The classifier on its own                                               *)

Instances == 1..MaxRequests

NoOut == ClassifyOut(<<>>, FALSE, 0)

InitCall ==
    [op |-> "init", df |-> NoFrame, backend |-> NoBackend,
     out |-> NoOut, returned |-> <<>>, items |-> <<>>]

LoadItems(self, df) ==
    /\ items_list' = [items_list EXCEPT ![self] = load_items(@, df)]
    /\ call' = [op |-> "load_items", df |-> df, backend |-> NoBackend,
                out |-> NoOut, returned |-> load_items_returned(df),
                items |-> items_list[self]]
    /\ UNCHANGED <<container, started, req>>

Classify(self, backend) ==
    /\ call.op = "init"
    /\ call' = [op |-> "classify", df |-> NoFrame, backend |-> backend,
                out |-> classify(items_list[self], backend), returned |-> <<>>,
                items |-> items_list[self]]
    /\ UNCHANGED <<items_list, container, started, req>>

-----------------------------------------------------------------------------
(* BaseClassifierService.filter_items                                      *)

LowerChar(c) == IF c = "A" THEN "a" ELSE IF c = "B" THEN "b" ELSE c

\* str.lower()
Lower(s) == [i \in DOMAIN s |-> LowerChar(s[i])]

\* Series.str raises AttributeError unless the column has object dtype: a
\* non-empty column of numbers and NaN only is numeric.
StrAccessorRaises(cells) ==
    /\ cells # <<>>
    /\ \A i \in DOMAIN cells : cells[i].kind \in {"num", "nan"}

NoScore == [has |-> FALSE, num |-> 0, den |-> 1]
Score(num, den) == [has |-> TRUE, num |-> num, den |-> den]

\* pd.DataFrame(): no rows and no columns.
EmptyFrame == [has_column |-> FALSE, rows |-> <<>>]

\* Outcome of filter_items.  Every return hands out a frame of its own
\* (df.copy(), df[mask].copy() or pd.DataFrame()), never the argument:
\* same_object says whether the returned frame is the object passed in.
FilterOut(raised, df, scores) ==
    [raised |-> raised, df |-> df, scores |-> scores, same_object |-> FALSE]

\* filter_items without the check that the column exists: df[column_name]
\* raises KeyError on a frame without the column.
filter_items_unchecked(df, item_value) ==
    IF item_value = <<>> THEN FilterOut(FALSE, df, <<>>)
    ELSE IF ~df.has_column THEN FilterOut(TRUE, EmptyFrame, <<>>)
    ELSE IF StrAccessorRaises(ColumnCells(df)) THEN FilterOut(TRUE, EmptyFrame, <<>>)
    ELSE
        LET kept == SelectSeq(df.rows,
                        LAMBDA row : /\ row.name.kind = "str"
                                     /\ Lower(row.name.s) = Lower(item_value))
        IN  IF kept = <<>>
            THEN FilterOut(FALSE, EmptyFrame, <<>>)
            ELSE FilterOut(FALSE,
                           [has_column |-> TRUE, rows |-> kept],
                           [i \in {kept[k].idx : k \in DOMAIN kept} |-> Score(1, 1)])

\* filter_items comparing without lower-casing the column.
filter_items_case_sensitive(df, item_value) ==
    IF item_value = <<>> THEN FilterOut(FALSE, df, <<>>)
    ELSE IF ~df.has_column THEN FilterOut(FALSE, df, <<>>)
    ELSE IF StrAccessorRaises(ColumnCells(df)) THEN FilterOut(TRUE, EmptyFrame, <<>>)
    ELSE
        LET kept == SelectSeq(df.rows,
                        LAMBDA row : /\ row.name.kind = "str"
                                     /\ row.name.s = item_value)
        IN  IF kept = <<>>
            THEN FilterOut(FALSE, EmptyFrame, <<>>)
            ELSE FilterOut(FALSE,
                           [has_column |-> TRUE, rows |-> kept],
                           [i \in {kept[k].idx : k \in DOMAIN kept} |-> Score(1, 1)])

\* filter_items(df, item_value): the filtered frame and the score map
\* {row label: 1.0}, or the exception of the .str accessor.
filter_items(df, item_value) ==
    IF item_value = <<>> THEN FilterOut(FALSE, df, <<>>)
    ELSE IF ~df.has_column THEN FilterOut(FALSE, df, <<>>)
    ELSE IF StrAccessorRaises(ColumnCells(df)) THEN FilterOut(TRUE, EmptyFrame, <<>>)
    ELSE
        LET kept == SelectSeq(df.rows,
                        LAMBDA row : /\ row.name.kind = "str"
                                     /\ Lower(row.name.s) = Lower(item_value))
        IN  IF kept = <<>>
            THEN FilterOut(FALSE, EmptyFrame, <<>>)
            ELSE FilterOut(FALSE,
                           [has_column |-> TRUE, rows |-> kept],
                           [i \in {kept[k].idx : k \in DOMAIN kept} |-> Score(1, 1)])

-----------------------------------------------------------------------------
(* BasePipeline._dataframe_to_models                                       *)

\* relevance_scores.get(idx)
ScoreOf(relevance_scores, idx) ==
    IF idx \in DOMAIN relevance_scores THEN relevance_scores[idx] ELSE NoScore

\* _create_model_instance(row, score); it raises for a row that does not
\* validate against the record type.
create_model_instance(row, score) ==
    [idx |-> row.idx, name |-> row.name, relevance_score |-> score]

\* getattr(x, 'relevance_score', 0) or 0, compared as a fraction.
ScoreGreater(x, y) ==
    LET a == IF x.has THEN x ELSE Score(0, 1)
        b == IF y.has THEN y ELSE Score(0, 1)
    IN  a.num * b.den > b.num * a.den

\* Insert item behind every element whose score is not smaller: a stable
\* descending order, as list.sort(reverse=True) gives.
RECURSIVE InsertByScore(_, _)
InsertByScore(sorted, item) ==
    IF sorted = <<>> THEN <<item>>
    ELSE IF ScoreGreater(item.relevance_score, Head(sorted).relevance_score)
         THEN <<item>> \o sorted
         ELSE <<Head(sorted)>> \o InsertByScore(Tail(sorted), item)

RECURSIVE SortByScore(_, _)
SortByScore(items, sorted) ==
    IF items = <<>> THEN sorted
    ELSE SortByScore(Tail(items), InsertByScore(sorted, Head(items)))

\* _dataframe_to_models without the try/except around the conversion of a
\* row: the first failing row ends the whole conversion.
dataframe_to_models_aborting(df, relevance_scores) ==
    LET items == [i \in DOMAIN df.rows |->
                     create_model_instance(df.rows[i],
                                           ScoreOf(relevance_scores, df.rows[i].idx))]
    IN  IF \E i \in DOMAIN df.rows : ~df.rows[i].valid THEN <<>>
        ELSE IF relevance_scores # <<>> THEN SortByScore(items, <<>>) ELSE items

\* _dataframe_to_models without the final sort.
dataframe_to_models_unsorted(df, relevance_scores) ==
    LET valid == SelectSeq(df.rows, LAMBDA row : row.valid)
    IN  [i \in DOMAIN valid |->
            create_model_instance(valid[i],
                                  ScoreOf(relevance_scores, valid[i].idx))]

\* BasePipeline._dataframe_to_models(df, relevance_scores): a row whose
\* conversion raises (valid = FALSE) is logged and skipped; the records are
\* sorted when relevance_scores is not empty.
dataframe_to_models(df, relevance_scores) ==
    LET valid == SelectSeq(df.rows, LAMBDA row : row.valid)
        items == [i \in DOMAIN valid |->
                     create_model_instance(valid[i],
                                           ScoreOf(relevance_scores, valid[i].idx))]
    IN  IF relevance_scores # <<>> THEN SortByScore(items, <<>>) ELSE items

-----------------------------------------------------------------------------
(* Answers                                                                 *)

\* Answer texts are kept as tags; "" is the empty text.
Answer(text, query, total_found, items) ==
    [text |-> text, query |-> query, total_found |-> total_found, items |-> items]

NoAnswer == Answer("none", "", 0, <<>>)

\* BasePipeline._create_empty_answer
create_empty_answer(question) == Answer("not_found", question, 0, <<>>)

\* BasePipeline._create_error_answer and the except clauses of the
\* dataset-specific pipelines.
create_error_answer(question) == Answer("error", question, 0, <<>>)

\* What the generation backend does with the answer prompt: it replies
\* with a text, with the empty text, with a message without content (None),
\* or the call raises.
Completions == {"text", "empty", "none", "raise"}

\* LLMClient.generate_completion: the text of the reply; "" when the call
\* raises, and also when the content is None, because response_text[:100]
\* in the logging line raises inside the try.  It never raises itself.
generate_completion(completion) ==
    [raised |-> FALSE,
     text |-> IF completion = "text" THEN "generated" ELSE ""]

\* BaseAnswerGeneratorService.make_md and RiskAnswerGeneratorService.make_md
\* after the prompts are built: the answer carries the generated text; the
\* except clause builds the templated text when the completion raises.
make_md(question, items, completion) ==
    LET generated == generate_completion(completion)
    IN  Answer(IF generated.raised THEN "fallback" ELSE generated.text,
               question, Len(items), items)

-----------------------------------------------------------------------------
(* Container.get                                                           *)

\* Container.get(cls): the registered instance if there is one, else the
\* factory's new instance, which is registered.
ContainerGet(instance, fresh) == IF instance # 0 THEN instance ELSE fresh

-----------------------------------------------------------------------------
(* Pipeline.process: BasePipeline and RisksPipeline                        *)

Slots == {1, 2}

Questions == {"q1", "q2"}

IdleReq ==
    [pc |-> "idle", kind |-> "base", question |-> "", category |-> "niokr",
     classifier |-> 0, df |-> NoFrame, processed_df |-> NoFrame,
     best_item |-> <<>>, filtered_df |-> NoFrame, relevance_scores |-> <<>>,
     items |-> <<>>, answer |-> NoAnswer, started_stages |-> <<>>,
     completed_stages |-> <<>>, llm_classify |-> 0, llm_answer |-> 0,
     outcome |-> "none", completion |-> "none", log |-> <<>>]

\* Step numbers of process.
StLoad == 1
StNormalize == 2
StPreProcess == 3
StLoadItems == 4
StClassify == 5
StFilter == 6
StToModels == 7
StMakeMd == 8

Begin(q, stage) == [q EXCEPT !.started_stages = Append(@, stage)]

\* The stage completed and process goes on with the stage at pc.
Continue(q, stage, pc) ==
    [q EXCEPT !.completed_stages = Append(@, stage), !.pc = pc]

\* PipelineLogger.start_pipeline_block and end_pipeline_block, as the
\* events of the request's log block.  Only BasePipeline.process has a
\* pipeline logger.
start_pipeline_block(q) ==
    IF q.kind = "base" THEN [q EXCEPT !.log = Append(@, "start")] ELSE q

end_pipeline_block(q, success) ==
    IF q.kind = "base"
    THEN [q EXCEPT !.log = Append(@, IF success THEN "end_ok" ELSE "end_error")]
    ELSE q

\* A return that leaves the log block open.
ReturnLeavingBlockOpen(q, stage, answer, outcome) ==
    [q EXCEPT !.completed_stages = Append(@, stage), !.pc = "returned",
              !.answer = answer, !.outcome = outcome]

\* The stage completed and process returns answer, after
\* end_pipeline_block(success=True).
Return(q, stage, answer, outcome) ==
    [end_pipeline_block(q, TRUE) EXCEPT
        !.completed_stages = Append(@, stage), !.pc = "returned",
        !.answer = answer, !.outcome = outcome]

\* The stage raised and process has no outer except clause: the exception
\* reaches the caller and no answer is built.
FailPropagates(q) ==
    [q EXCEPT !.pc = "returned", !.outcome = "raised"]

\* The stage raised: the outer except clause closes the log block with
\* success=False and returns the error answer.
Fail(q) ==
    [end_pipeline_block(q, FALSE) EXCEPT
        !.pc = "returned", !.answer = create_error_answer(q.question),
        !.outcome = "error"]

\* get_pipeline(button_type) and the call of process(question, ...).
StartRequest(r, P) ==
    /\ req[r].pc \in {"idle", "returned"}
    /\ started < MaxRequests
    /\ \E kind \in P.kinds, question \in P.questions, category \in P.categories :
          LET inst == ContainerGet(container, started + 1)
          IN  /\ container' = inst
              /\ req' = [req EXCEPT ![r] =
                            start_pipeline_block(
                                [IdleReq EXCEPT !.pc = "load", !.kind = kind,
                                                !.question = question,
                                                !.category = category,
                                                !.classifier = inst])]
    /\ started' = started + 1
    /\ UNCHANGED <<items_list, call>>

\* Step 1: excel_loader.load
StageLoad(r, P) ==
    /\ req[r].pc = "load"
    /\ \E df \in P.frames, raises \in P.raises :
          LET q == Begin(req[r], StLoad)
          IN  req' = [req EXCEPT ![r] =
                         IF raises THEN Fail(q)
                         ELSE Continue([q EXCEPT !.df = df], StLoad, "normalize")]
    /\ UNCHANGED <<items_list, call, container, started>>

\* Step 2: normalization_service.clean_df; the frames of the model carry
\* the normalized columns already.
StageNormalize(r, P) ==
    /\ req[r].pc = "normalize"
    /\ \E raises \in P.raises :
          LET q == Begin(req[r], StNormalize)
          IN  req' = [req EXCEPT ![r] =
                         IF raises THEN Fail(q)
                         ELSE Continue(q, StNormalize, "pre_process")]
    /\ UNCHANGED <<items_list, call, container, started>>

\* BasePipeline._pre_process_dataframe returns df; RisksPipeline keeps the
\* rows whose project_type is the requested category.
pre_process_dataframe(kind, df, category) ==
    IF kind = "risks"
    THEN [df EXCEPT !.rows = SelectSeq(df.rows, LAMBDA row : row.category = category)]
    ELSE df

\* process without the check for an empty frame.
NoDataNeverChecked(processed_df) == FALSE

\* if len(processed_df) == 0: return the empty answer
NoDataAfterPreProcess(processed_df) == Len(processed_df.rows) = 0

\* Step 3: pre-processing and the early exit on an empty frame.
StagePreProcess(r, P) ==
    /\ req[r].pc = "pre_process"
    /\ \E raises \in P.raises :
          LET q == Begin(req[r], StPreProcess)
              processed_df == pre_process_dataframe(q.kind, q.df, q.category)
          IN  req' = [req EXCEPT ![r] =
                         IF raises THEN Fail(q)
                         ELSE IF NoDataAfterPreProcess(processed_df)
                         THEN Return([q EXCEPT !.processed_df = processed_df],
                                     StPreProcess,
                                     IF q.kind = "risks"
                                     THEN Answer("not_found_in_category",
                                                 q.question, 0, <<>>)
                                     ELSE create_empty_answer(q.question),
                                     "empty")
                         ELSE Continue([q EXCEPT !.processed_df = processed_df],
                                       StPreProcess, "load_items")]
    /\ UNCHANGED <<items_list, call, container, started>>

\* Step 4: classifier_service.load_items(processed_df) (load_project_names).
StageLoadItems(r) ==
    /\ req[r].pc = "load_items"
    /\ LET q == Begin(req[r], StLoadItems)
       IN  /\ items_list' = [items_list EXCEPT ![q.classifier] =
                                load_items(@, q.processed_df)]
           /\ req' = [req EXCEPT ![r] = Continue(q, StLoadItems, "classify")]
    /\ UNCHANGED <<call, container, started>>

\* if not best_item: return the empty answer (BasePipeline only).
NoClassification(kind, best_item) == kind = "base" /\ best_item = <<>>

\* Step 5: classifier_service.classify(question).
StageClassify(r, P) ==
    /\ req[r].pc = "classify"
    /\ \E backend \in P.backends :
          LET q == Begin(req[r], StClassify)
              out == classify(items_list[q.classifier], backend)
              q2 == [q EXCEPT !.best_item = out.ret,
                              !.llm_classify = @ + out.llm_calls]
          IN  req' = [req EXCEPT ![r] =
                         IF out.raised THEN Fail(q2)
                         ELSE IF NoClassification(q.kind, out.ret)
                         THEN Return(q2, StClassify,
                                     create_empty_answer(q.question), "empty")
                         ELSE Continue(q2, StClassify, "filter")]
    /\ UNCHANGED <<items_list, call, container, started>>

\* Step 6: classifier_service.filter_items(processed_df, best_item)
\* (filter_risks).
StageFilter(r) ==
    /\ req[r].pc = "filter"
    /\ LET q == Begin(req[r], StFilter)
           out == filter_items(q.processed_df, q.best_item)
       IN  req' = [req EXCEPT ![r] =
                      IF out.raised THEN Fail(q)
                      ELSE Continue([q EXCEPT !.filtered_df = out.df,
                                              !.relevance_scores = out.scores],
                                    StFilter, "to_models")]
    /\ UNCHANGED <<items_list, call, container, started>>

\* Step 7: _dataframe_to_models(filtered_df, relevance_scores).
StageToModels(r) ==
    /\ req[r].pc = "to_models"
    /\ LET q == Begin(req[r], StToModels)
       IN  req' = [req EXCEPT ![r] =
                      Continue([q EXCEPT !.items =
                                   dataframe_to_models(q.filtered_df,
                                                       q.relevance_scores)],
                               StToModels, "make_md")]
    /\ UNCHANGED <<items_list, call, container, started>>

\* Step 8: answer_generator.make_md; building the prompts may raise, the
\* completion itself is guarded inside make_md.
StageMakeMd(r, P) ==
    /\ req[r].pc = "make_md"
    /\ \E raises \in P.raises, completion \in P.completions :
          LET q == Begin(req[r], StMakeMd)
          IN  req' = [req EXCEPT ![r] =
                         IF raises THEN Fail(q)
                         ELSE Return([q EXCEPT !.llm_answer = @ + 1,
                                               !.completion = completion],
                                     StMakeMd,
                                     make_md(q.question, q.items, completion),
                                     "answer")]
    /\ UNCHANGED <<items_list, call, container, started>>

Step(r, P) ==
    \/ StartRequest(r, P)
    \/ StageLoad(r, P)
    \/ StageNormalize(r, P)
    \/ StagePreProcess(r, P)
    \/ StageLoadItems(r)
    \/ StageClassify(r, P)
    \/ StageFilter(r)
    \/ StageToModels(r)
    \/ StageMakeMd(r, P)

-----------------------------------------------------------------------------
(* Inputs of the pipeline specifications                                   *)

PipelineCells == {StrCell(<<"a">>), StrCell(<<"#", "a">>), ListCell}

\* Frames of up to MaxRows rows, every row in one of the two categories.
PipelineFrames ==
    UNION {
        {[has_column |-> has,
          rows |-> [i \in 1..n |->
                       [idx |-> i - 1,
                        name |-> IF has THEN names[i] ELSE NanCell,
                        category |-> cats[i],
                        valid |-> TRUE]]] :
            names \in [1..n -> PipelineCells], cats \in [1..n -> Categories]} :
        n \in 0..MaxRows, has \in BOOLEAN}

\* One reply per vocabulary entry, and the three ways of getting no reply.
PipelineBackends ==
    {[kind |-> k, top_matches |-> <<>>] : k \in {"no_client", "raise", "unparsed"}}
    \cup {[kind |-> "parsed", top_matches |-> <<[item |-> w, score |-> MaxScore]>>] :
             w \in WrappedStrings}

SeqProfile ==
    [kinds |-> {"base", "risks"}, questions |-> Questions,
     categories |-> {"niokr"}, frames |-> PipelineFrames, raises |-> BOOLEAN,
     backends |-> PipelineBackends, completions |-> Completions]

InitPipeline ==
    /\ items_list = [i \in Instances |-> <<>>]
    /\ call = InitCall
    /\ container = 0
    /\ started = 0
    /\ req = [r \in Slots |-> IdleReq]

\* Requests served one after the other.
Next == Step(1, SeqProfile)

Spec == InitPipeline /\ [][Next]_vars

-----------------------------------------------------------------------------
(* Specifications of the classifier on its own                             *)

\* Any sequence of load_items calls on one instance.
InitLoad ==
    /\ items_list = [i \in Instances |-> <<>>]
    /\ call = InitCall
    /\ container = 0
    /\ started = 0
    /\ req = [r \in Slots |-> IdleReq]

NextLoad == \E df \in ClassifierFrames : LoadItems(1, df)

SpecLoad == InitLoad /\ [][NextLoad]_vars

\* The vocabularies load_items can leave in a classifier.
Vocabularies == {load_items(<<>>, df) : df \in ClassifierFrames}

\* One classify call on any vocabulary with any behaviour of the backend.
InitClassify ==
    /\ items_list \in [Instances -> Vocabularies]
    /\ \A i \in Instances : i # 1 => items_list[i] = <<>>
    /\ call = InitCall
    /\ container = 0
    /\ started = 0
    /\ req = [r \in Slots |-> IdleReq]

NextClassify == \E backend \in Backends : Classify(1, backend)

SpecClassify == InitClassify /\ [][NextClassify]_vars

\* Two requests whose stages interleave; both get their classifier from the
\* container.  Each frame has one row and its own entity.
ConcurrentFrames ==
    {[has_column |-> TRUE,
      rows |-> MakeRows(<<StrCell(s)>>, <<"niokr">>)] : s \in {<<"a">>, <<"b">>}}

ConcurrentProfile ==
    [kinds |-> {"base"}, questions |-> {"q1"}, categories |-> {"niokr"},
     frames |-> ConcurrentFrames, raises |-> {FALSE},
     backends |-> PipelineBackends, completions |-> {"text"}]

NextConcurrent == \E r \in Slots : Step(r, ConcurrentProfile)

SpecConcurrent == InitPipeline /\ [][NextConcurrent]_vars

-----------------------------------------------------------------------------
(* BaseClassifierService.filter_items on its own                           *)

\* Values of the designated column, with an upper-case string among them.
FilterCells == Cells \cup {StrCell(<<"A">>)}

FilterFrames ==
    FramesWithColumn(FilterCells, MaxRows) \cup FramesWithoutColumn(MaxRows)

\* item_value: "" (or None), entities in either case, an entity no row has.
ItemValues == {<<>>, <<"a">>, <<"A">>, <<"b">>, <<"#", "a">>, <<"c">>}

NoFilterOut == FilterOut(FALSE, NoFrame, <<>>)

\* filter_items(df, item_value) on any frame.  filter_items only reads df:
\* source, the argument as it is after the call, is df.
FilterItems(df, item_value) ==
    /\ call.op = "init"
    /\ call' = [op |-> "filter_items", df |-> df, item_value |-> item_value,
                out |-> filter_items(df, item_value), first |-> NoFilterOut,
                source |-> df]
    /\ UNCHANGED <<items_list, container, started, req>>

\* filter_items applied to the frame the first call returned, with the same
\* item_value.
FilterAgain ==
    /\ call.op = "filter_items"
    /\ ~call.out.raised
    /\ call' = [op |-> "filter_again", df |-> call.df,
                item_value |-> call.item_value,
                out |-> filter_items(call.out.df, call.item_value),
                first |-> call.out, source |-> call.out.df]
    /\ UNCHANGED <<items_list, container, started, req>>

NextFilter ==
    \/ \E df \in FilterFrames, item_value \in ItemValues : FilterItems(df, item_value)
    \/ FilterAgain

SpecFilter == InitLoad /\ [][NextFilter]_vars

-----------------------------------------------------------------------------
(* calculate_relevance_score of app/tools/base_tool.py                     *)

MaxKeywords == 2    \* keywords in one list

Space == " "

RECURSIVE LStripSpace(_)
LStripSpace(s) ==
    IF s # <<>> /\ Head(s) = Space THEN LStripSpace(Tail(s)) ELSE s

RECURSIVE RStripSpace(_)
RStripSpace(s) ==
    IF s # <<>> /\ s[Len(s)] = Space
    THEN RStripSpace(SubSeq(s, 1, Len(s) - 1))
    ELSE s

\* str.strip()
StripSpace(s) == RStripSpace(LStripSpace(s))

\* kw in text
Contains(text, kw) ==
    \E i \in 0..(Len(text) - Len(kw)) : SubSeq(text, i + 1, i + Len(kw)) = kw

\* keyword_lower and keyword_lower in text_lower
KeywordMatches(text, keyword) ==
    LET keyword_lower == StripSpace(Lower(keyword))
    IN  keyword_lower # <<>> /\ Contains(Lower(text), keyword_lower)

\* The keyword test without lower-casing the text.
KeywordMatchesCaseSensitive(text, keyword) ==
    LET keyword_lower == StripSpace(Lower(keyword))
    IN  keyword_lower # <<>> /\ Contains(text, keyword_lower)

\* The positions of the keywords counted in matches.
MatchedKeywords(text, keywords) ==
    {i \in DOMAIN keywords : KeywordMatches(text, keywords[i])}

\* matches without lower-casing the text.
MatchedKeywordsCaseSensitive(text, keywords) ==
    {i \in DOMAIN keywords : KeywordMatchesCaseSensitive(text, keywords[i])}

\* calculate_relevance_score without text_lower.
calculate_relevance_score_case_sensitive(text, keywords) ==
    IF text = <<>> \/ keywords = <<>> THEN Score(0, 1)
    ELSE Score(Cardinality(MatchedKeywordsCaseSensitive(text, keywords)), Len(keywords))

\* calculate_relevance_score(text, keywords): 0.0 for an empty text or list,
\* matches / len(keywords) otherwise, kept as a fraction.
calculate_relevance_score(text, keywords) ==
    IF text = <<>> \/ keywords = <<>> THEN Score(0, 1)
    ELSE Score(Cardinality(MatchedKeywords(text, keywords)), Len(keywords))

Texts == {<<>>, <<"a">>, <<"A", "b">>, <<"b", " ", "a">>}

KeywordStrings == {<<>>, <<"a">>, <<"B">>, <<" ", "a">>, <<"a", "b">>, <<" ">>}

KeywordLists == UNION {[1..n -> KeywordStrings] : n \in 0..MaxKeywords}

CalculateRelevanceScore(text, keywords) ==
    /\ call.op = "init"
    /\ call' = [op |-> "calculate_relevance_score", text |-> text,
                keywords |-> keywords,
                out |-> calculate_relevance_score(text, keywords)]
    /\ UNCHANGED <<items_list, container, started, req>>

NextScore ==
    \E text \in Texts, keywords \in KeywordLists :
        CalculateRelevanceScore(text, keywords)

SpecScore == InitLoad /\ [][NextScore]_vars

-----------------------------------------------------------------------------
(* KeywordSearchTool: app/tools/keyword_search_tool.py (the tool the        *)
(* registry holds) and app/tools/implementations/_shared (lemmatizing).    *)
(* A frame seen by a tool is [has_text, rows, helper]: has_text says the   *)
(* searched text column exists, each row keeps its index label idx and the *)
(* cell of the text column, helper is the set of columns a tool added.     *)

MaxTopN == 2        \* top_n values tried

ScoreColumn == "keyword_relevance_score"

LemmaColumn == "lemmatized_risk_text"

Punct == "!"

ToolFrame(has_text, rows, helper) ==
    [has_text |-> has_text, rows |-> rows, helper |-> helper]

\* pd.DataFrame()
EmptyToolFrame == ToolFrame(FALSE, <<>>, {})

Min(a, b) == IF a <= b THEN a ELSE b

Take(s, n) == SubSeq(s, 1, Min(n, Len(s)))

\* df.head(top_n)
head(df, n) == [df EXCEPT !.rows = Take(df.rows, n)]

\* str(text).lower() input of the scorer: NaN prints as "nan".
TextOf(cell) == IF cell.kind = "str" THEN cell.s ELSE <<"n", "a", "n">>

\* re.sub(r'[^...a-zA-Z0-9\s]', ' ', text)
PunctToSpace(s) == [i \in DOMAIN s |-> IF s[i] = Punct THEN Space ELSE s[i]]

\* text.split(): the maximal runs without whitespace.
RECURSIVE Words(_, _, _)
Words(s, current, done) ==
    IF s = <<>>
    THEN IF current = <<>> THEN done ELSE Append(done, current)
    ELSE IF Head(s) = Space
         THEN Words(Tail(s), <<>>,
                    IF current = <<>> THEN done ELSE Append(done, current))
         ELSE Words(Tail(s), Append(current, Head(s)), done)

\* morph.parse(word)[0].normal_form of the analyzer: the dictionary form; the
\* one inflected word of the model is "as", whose dictionary form is "a".
normal_form(word) == IF word = <<"a", "s">> THEN <<"a">> ELSE word

\* " ".join(words)
RECURSIVE JoinWords(_)
JoinWords(words) ==
    IF words = <<>> THEN <<>>
    ELSE IF Len(words) = 1 THEN Head(words)
    ELSE Head(words) \o <<Space>> \o JoinWords(Tail(words))

\* KeywordSearchTool._lemmatize_text of the lemmatizing tool; "" for a value
\* that is not a string.
lemmatize_text(cell) ==
    IF cell.kind # "str" THEN <<>>
    ELSE LET words == Words(PunctToSpace(Lower(cell.s)), <<>>, <<>>)
         IN  JoinWords([i \in DOMAIN words |-> normal_form(words[i])])

\* A row with the score the tool computed for it.
ScoredRow(row, score) ==
    [idx |-> row.idx, text |-> row.text, relevance_score |-> score]

PlainRow(scored) == [idx |-> scored.idx, text |-> scored.text]

Positive(scored) == SelectSeq(scored, LAMBDA x : x.relevance_score.num > 0)

\* filtered_df.head(top_n) in place of nlargest: no ordering by score.
nlargest_unsorted(n, scored) == Take(scored, n)

\* filtered_df.nlargest(top_n, 'keyword_relevance_score'): the n rows of
\* highest score in descending order, equal scores in their frame order.
nlargest(n, scored) == Take(SortByScore(scored, <<>>), n)

\* The score map built from every scored row instead of result_df.
to_dict_of_all(scored, result) ==
    [i \in {scored[k].idx : k \in DOMAIN scored} |->
        (CHOOSE x \in Range(scored) : x.idx = i).relevance_score]

\* pd.Series(result_df.keyword_relevance_score, index=result_df.index).to_dict()
to_dict(scored, result) ==
    [i \in {result[k].idx : k \in DOMAIN result} |->
        (CHOOSE x \in Range(result) : x.idx = i).relevance_score]

\* Outcome of a tool call: the returned frame and score map, and the frame
\* passed in as it is after the call.  df.head(), pd.DataFrame(), nlargest
\* and df.loc[] each build a frame of their own: same_object, which says
\* whether the returned frame is the object passed in, is FALSE.
ToolOut(raised, df, scores, source) ==
    [raised |-> raised, df |-> df, scores |-> scores, source |-> source,
     same_object |-> FALSE]

\* The scores of execute: calculate_relevance_score on the text as it is.
ScoreRows(df, keywords) ==
    [i \in DOMAIN df.rows |->
        ScoredRow(df.rows[i],
                  calculate_relevance_score(TextOf(df.rows[i].text), keywords))]

\* execute adding the score column to df itself (no df.copy()).
execute_in_place(df, keywords, top_n) ==
    IF df.rows = <<>> \/ keywords = <<>> THEN ToolOut(FALSE, head(df, top_n), <<>>, df)
    ELSE IF ~df.has_text THEN ToolOut(FALSE, head(df, top_n), <<>>, df)
    ELSE
        LET scored == ScoreRows(df, keywords)
            with_scores == [df EXCEPT !.helper = @ \cup {ScoreColumn}]
            filtered == Positive(scored)
            result == nlargest(top_n, filtered)
        IN  IF filtered = <<>>
            THEN ToolOut(FALSE, head(with_scores, top_n), <<>>, with_scores)
            ELSE ToolOut(FALSE,
                         ToolFrame(TRUE,
                                   [i \in DOMAIN result |-> PlainRow(result[i])],
                                   with_scores.helper),
                         to_dict(filtered, result),
                         with_scores)

\* KeywordSearchTool.execute(df, keywords, column_to_search, top_n) of
\* app/tools/keyword_search_tool.py, column_to_search naming the text column.
execute(df, keywords, top_n) ==
    IF df.rows = <<>> \/ keywords = <<>> THEN ToolOut(FALSE, head(df, top_n), <<>>, df)
    ELSE IF ~df.has_text THEN ToolOut(FALSE, head(df, top_n), <<>>, df)
    ELSE
        LET scored == ScoreRows(df, keywords)
            filtered == Positive(scored)
            result == nlargest(top_n, filtered)
        IN  IF filtered = <<>>
            THEN ToolOut(FALSE, head(df, top_n), <<>>, df)
            ELSE ToolOut(FALSE,
                         ToolFrame(TRUE,
                                   [i \in DOMAIN result |-> PlainRow(result[i])],
                                   df.helper \cup {ScoreColumn}),
                         to_dict(filtered, result),
                         df)

\* [self._lemmatize_text(kw) for kw in keywords if kw]
LemmatizeKeywords(keywords) ==
    LET kept == SelectSeq(keywords, LAMBDA kw : kw # <<>>)
    IN  [i \in DOMAIN kept |-> lemmatize_text(StrCell(kept[i]))]

\* The scores of the lemmatizing execute.
ScoreRowsLemmatized(df, keywords) ==
    [i \in DOMAIN df.rows |->
        ScoredRow(df.rows[i],
                  calculate_relevance_score(lemmatize_text(df.rows[i].text),
                                            LemmatizeKeywords(keywords)))]

\* KeywordSearchTool.execute(df, keywords, top_n) of
\* app/tools/implementations/_shared/keyword_search_tool.py; it returns
\* df.loc[result_df.index], the rows without the helper columns.
execute_shared(df, keywords, top_n) ==
    IF df.rows = <<>> \/ keywords = <<>> THEN ToolOut(FALSE, head(df, top_n), <<>>, df)
    ELSE IF ~df.has_text THEN ToolOut(FALSE, EmptyToolFrame, <<>>, df)
    ELSE
        LET scored == ScoreRowsLemmatized(df, keywords)
            filtered == Positive(scored)
            result == nlargest(top_n, filtered)
        IN  IF filtered = <<>>
            THEN ToolOut(FALSE, head(df, top_n), <<>>, df)
            ELSE ToolOut(FALSE,
                         ToolFrame(TRUE,
                                   [i \in DOMAIN result |-> PlainRow(result[i])],
                                   df.helper),
                         to_dict(filtered, result),
                         df)

\* Cells of the text column: strings and a missing value.
ToolCells ==
    {StrCell(<<>>), StrCell(<<"a">>), StrCell(<<"a", "s", " ", "B">>),
     StrCell(<<"b", "!">>), NanCell}

ToolRows(cells) == [i \in DOMAIN cells |-> [idx |-> i - 1, text |-> cells[i]]]

ToolFrames ==
    {ToolFrame(TRUE, ToolRows(cells), {}) :
        cells \in UNION {[1..n -> ToolCells] : n \in 0..MaxRows}}
    \cup {ToolFrame(FALSE, ToolRows([i \in 1..n |-> NanCell]), {}) : n \in 0..MaxRows}

ToolKeywordStrings == {<<"a">>, <<"B">>, <<" ">>}

ToolKeywordLists == UNION {[1..n -> ToolKeywordStrings] : n \in 0..MaxKeywords}

TopNs == 1..MaxTopN

ToolNames == {"keyword_search_tool", "_shared"}

\* One call of a tool's execute.
Execute(tool, df, keywords, top_n) ==
    /\ call.op = "init"
    /\ call' = [op |-> "execute", tool |-> tool, df |-> df,
                keywords |-> keywords, top_n |-> top_n,
                out |-> IF tool = "_shared"
                        THEN execute_shared(df, keywords, top_n)
                        ELSE execute(df, keywords, top_n)]
    /\ UNCHANGED <<items_list, container, started, req>>

NextTool ==
    \E tool \in ToolNames, df \in ToolFrames, keywords \in ToolKeywordLists,
       top_n \in TopNs :
        Execute(tool, df, keywords, top_n)

SpecTool == InitLoad /\ [][NextTool]_vars

-----------------------------------------------------------------------------
(* ToolExecutor.select_and_execute and the strategy table of               *)
(* SmartFilteringSettings.  The registry maps tool names to tools; the     *)
(* outcome of the KeyBERT service on the question is an input.             *)

ToolName == "search_by_keywords"

NoTool == "None"

\* ToolRegistry(): _register_tools registers the KeywordSearchTool of
\* app/tools/keyword_search_tool.py under the name of its schema.
tool_registry == [name \in {ToolName} |-> "keyword_search_tool"]

\* Registries a ToolExecutor can be built with: the default one, one holding
\* the lemmatizing tool, and one without tools.
Registries ==
    {tool_registry,
     [name \in {ToolName} |-> "_shared"],
     [name \in {} |-> NoTool]}

\* ToolRegistry.get_tool: self._tools.get(name)
get_tool(registry, name) ==
    IF name \in DOMAIN registry THEN registry[name] ELSE NoTool

\* kwargs.get('top_n', 5)
DefaultTopN == 5

Kwargs ==
    {[has_top_n |-> FALSE, top_n |-> DefaultTopN]}
    \cup {[has_top_n |-> TRUE, top_n |-> n] : n \in TopNs}

NoKwargs == [has_top_n |-> FALSE, top_n |-> DefaultTopN]

kwargs_get_top_n(kwargs) == IF kwargs.has_top_n THEN kwargs.top_n ELSE DefaultTopN

\* What keybert_service.extract_keywords does on the question: it raises or
\* returns a list of keywords.
DispatchKeywordStrings == {<<"a">>, <<"B">>}

ExtractorOutcomes ==
    {[raised |-> TRUE, keywords |-> <<>>]}
    \cup {[raised |-> FALSE, keywords |-> k] :
            k \in UNION {[1..n -> DispatchKeywordStrings] : n \in 0..MaxKeywords}}

\* ToolExecutor._extract_keywords_with_keybert: [] when the service raises.
extract_keywords_with_keybert(extracted) ==
    IF extracted.raised THEN <<>> ELSE extracted.keywords

\* tool_to_execute.execute(df=df, keywords=keywords, top_n=top_n).  The
\* execute of app/tools/keyword_search_tool.py has the required parameter
\* column_to_search, which the call does not pass: TypeError before the body
\* runs.
tool_execute(tool, df, keywords, top_n) ==
    IF tool = "_shared"
    THEN execute_shared(df, keywords, top_n)
    ELSE ToolOut(TRUE, EmptyToolFrame, <<>>, df)

\* Outcome of the dispatcher: the returned frame and score map, the frame
\* passed in as it is after the call, whether the returned frame is the
\* object passed in, and how often the extractor and a tool were invoked.
DispatchOut(raised, df, scores, source, same_object, extractor_calls, tool_calls) ==
    [raised |-> raised, df |-> df, scores |-> scores, source |-> source,
     same_object |-> same_object, extractor_calls |-> extractor_calls,
     tool_calls |-> tool_calls]

\* return df, {}
PassThrough(df, extractor_calls, tool_calls) ==
    DispatchOut(FALSE, df, <<>>, df, TRUE, extractor_calls, tool_calls)

\* select_and_execute without its try/except: the exception of the tool
\* leaves the method.
select_and_execute_unguarded(df, extracted, registry, kwargs) ==
    LET keywords == extract_keywords_with_keybert(extracted)
        tool == get_tool(registry, ToolName)
    IN  IF keywords = <<>> THEN PassThrough(df, 1, 0)
        ELSE IF tool = NoTool THEN PassThrough(df, 1, 0)
        ELSE LET r == tool_execute(tool, df, keywords, kwargs_get_top_n(kwargs))
             IN  DispatchOut(r.raised, r.df, r.scores, r.source,
                             r.same_object, 1, 1)

\* ToolExecutor.select_and_execute(question, df, **kwargs)
select_and_execute(df, extracted, registry, kwargs) ==
    LET keywords == extract_keywords_with_keybert(extracted)
        tool == get_tool(registry, ToolName)
    IN  IF keywords = <<>> THEN PassThrough(df, 1, 0)
        ELSE IF tool = NoTool THEN PassThrough(df, 1, 0)
        ELSE LET r == tool_execute(tool, df, keywords, kwargs_get_top_n(kwargs))
             IN  IF r.raised
                 THEN PassThrough(r.source, 1, 1)
                 ELSE DispatchOut(FALSE, r.df, r.scores, r.source,
                                  r.same_object, 1, 1)

\* SmartFilteringSettings.strategy
strategy ==
    [contractors |-> "none", risks |-> "keybert", errors |-> "none",
     processes |-> "none"]

\* SmartFilteringSettings.strategy_tool_map
strategy_tool_map == [keybert |-> ToolName]

StrategyNames == {"none", "keybert", "llm", "both", "other"}

\* The table as the settings can hold it: the default, and the strategy of
\* one kind overridden.
StrategyTables == {[strategy EXCEPT !.risks = s] : s \in StrategyNames}

DatasetKinds == DOMAIN strategy \cup {"unknown"}

\* The strategy of a dataset kind; none for a kind the table does not name.
resolve_strategy(table, dataset_kind) ==
    IF dataset_kind \in DOMAIN table THEN table[dataset_kind] ELSE "none"

\* A dispatcher that runs the keyword strategy whatever the table says.
apply_strategy_always_keybert(table, dataset_kind, df, extracted, registry) ==
    select_and_execute(df, extracted, registry, NoKwargs)

\* apply_strategy(question, dataset, dataset_kind): keybert runs
\* select_and_execute; llm and both are not supported yet and, like none and
\* any other name, hand the dataset back with an empty score map.
apply_strategy(table, dataset_kind, df, extracted, registry) ==
    LET name == resolve_strategy(table, dataset_kind)
    IN  IF name = "keybert" /\ name \in DOMAIN strategy_tool_map
        THEN select_and_execute(df, extracted, registry, NoKwargs)
        ELSE IF name \in {"llm", "both"}
        THEN PassThrough(df, 0, 0)
        ELSE PassThrough(df, 0, 0)

DispatchCells == {StrCell(<<"a">>), StrCell(<<"b", "!">>)}

DispatchFrames ==
    {ToolFrame(TRUE, ToolRows(cells), {}) :
        cells \in UNION {[1..n -> DispatchCells] : n \in 0..MaxRows}}
    \cup {ToolFrame(FALSE, ToolRows([i \in 1..n |-> NanCell]), {}) : n \in 0..MaxRows}

\* One call of select_and_execute.
SelectAndExecute(df, extracted, registry, kwargs) ==
    /\ call.op = "init"
    /\ call' = [op |-> "select_and_execute", df |-> df,
                extracted |-> extracted, registry |-> registry,
                kwargs |-> kwargs,
                out |-> select_and_execute(df, extracted, registry, kwargs)]
    /\ UNCHANGED <<items_list, container, started, req>>

\* One call of apply_strategy.
ApplyStrategy(table, dataset_kind, df, extracted, registry) ==
    /\ call.op = "init"
    /\ call' = [op |-> "apply_strategy", table |-> table,
                dataset_kind |-> dataset_kind, df |-> df,
                extracted |-> extracted, registry |-> registry,
                out |-> apply_strategy(table, dataset_kind, df, extracted,
                                       registry)]
    /\ UNCHANGED <<items_list, container, started, req>>

NextDispatch ==
    \/ \E df \in DispatchFrames, extracted \in ExtractorOutcomes,
          registry \in Registries, kwargs \in Kwargs :
           SelectAndExecute(df, extracted, registry, kwargs)
    \/ \E table \in StrategyTables, dataset_kind \in DatasetKinds,
          df \in DispatchFrames, extracted \in ExtractorOutcomes,
          registry \in Registries :
           ApplyStrategy(table, dataset_kind, df, extracted, registry)

SpecDispatch == InitLoad /\ [][NextDispatch]_vars

\* The filter stages together: filter_items, the tools and the dispatcher.
NextStages == NextFilter \/ NextTool \/ NextDispatch

SpecStages == InitLoad /\ [][NextStages]_vars

-----------------------------------------------------------------------------
(* BasePipeline._dataframe_to_models on its own                            *)

\* Frames of up to MaxRows rows, each row converting or failing to convert.
ModelFrames ==
    UNION {
        {[has_column |-> TRUE,
          rows |-> [i \in 1..n |->
                       [idx |-> i - 1, name |-> StrCell(<<"a">>),
                        category |-> "niokr", valid |-> valid[i]]]] :
            valid \in [1..n -> BOOLEAN]} :
        n \in 0..MaxRows}

\* Scores a filter stage can give: k of MaxKeywords keywords matched.
ModelScores == {Score(k, MaxKeywords) : k \in 0..MaxKeywords}

\* relevance_scores: scores for some index labels, of the frame or not.
RelevanceScoreMaps ==
    UNION {[keys -> ModelScores] : keys \in SUBSET (0..MaxRows)}

\* One call of _dataframe_to_models.
DataframeToModels(df, relevance_scores) ==
    /\ call.op = "init"
    /\ call' = [op |-> "dataframe_to_models", df |-> df,
                relevance_scores |-> relevance_scores,
                out |-> dataframe_to_models(df, relevance_scores)]
    /\ UNCHANGED <<items_list, container, started, req>>

NextModels ==
    \E df \in ModelFrames, relevance_scores \in RelevanceScoreMaps :
        DataframeToModels(df, relevance_scores)

SpecModels == InitLoad /\ [][NextModels]_vars

-----------------------------------------------------------------------------
(* get_pipeline of app/pipelines/__init__.py.  A class is known by its     *)
(* name; the container is the set of classes it holds an instance of.      *)

\* ButtonType
ButtonTypes == {"contractors", "risks", "errors", "processes"}

\* RiskCategory, and None.
RiskCategoryArguments == {"None", "niokr", "product_project", "manufacturing"}

BUTTON_TO_PIPELINE ==
    [contractors |-> "ContractorsPipeline", risks |-> "RisksPipeline",
     errors |-> "ErrorsPipeline", processes |-> "ProcessesPipeline"]

\* The parameters of __init__ of the four pipeline classes.
PipelineInitParameters ==
    [p \in {"ContractorsPipeline", "RisksPipeline", "ErrorsPipeline",
            "ProcessesPipeline"} |->
        {"excel_loader", "normalization_service", "classifier_service",
         "answer_generator"}]

\* The keyword arguments each factory of get_pipeline passes.
FactoryKeywords ==
    {"excel_loader", "normalization_service", "classifier_service",
     "answer_generator", "tool_executor"}

\* The classes each factory asks the container for; the factories of the
\* services ask it for LLMClient.
FactoryServices ==
    [contractors |-> {"ExcelLoader", "NormalizationService",
                      "ContractorClassifierService", "AnswerGeneratorService",
                      "ToolExecutor", "LLMClient"},
     risks |-> {"ExcelLoader", "RiskNormalizationService",
                "RiskClassifierService", "RiskAnswerGeneratorService",
                "ToolExecutor", "LLMClient"},
     errors |-> {"ExcelLoader", "ErrorNormalizationService",
                 "ErrorClassifierService", "ErrorAnswerGeneratorService",
                 "ToolExecutor", "LLMClient"},
     processes |-> {"ExcelLoader", "ProcessNormalizationService",
                    "ProcessClassifierService", "ProcessAnswerGeneratorService",
                    "ToolExecutor", "LLMClient"}]

\* The public methods of the classifier service of each button type.
ClassifierMethods ==
    [contractors |-> {"load_work_types", "classify", "filter_contractors"},
     risks |-> {"get_column_name", "get_item_type", "load_items", "classify",
                "filter_items", "load_project_names", "filter_risks"},
     errors |-> {"load_project_names", "classify", "filter_errors"},
     processes |-> {"load_process_names", "classify", "filter_processes"}]

PipelineOut(raised, pipeline, classifier_methods, instances) ==
    [raised |-> raised, pipeline |-> pipeline,
     classifier_methods |-> classifier_methods, instances |-> instances]

\* get_pipeline(button_type, risk_category) with the container holding
\* instances: ValueError for an unknown button type; otherwise the
\* arguments of the factory are fetched from the container and the pipeline
\* class is called with them, which is a TypeError when a keyword is not a
\* parameter of its __init__.
get_pipeline(button_type, instances) ==
    IF button_type \notin DOMAIN BUTTON_TO_PIPELINE
    THEN PipelineOut(TRUE, "None", {}, instances)
    ELSE LET got == instances \cup FactoryServices[button_type]
             class == BUTTON_TO_PIPELINE[button_type]
         IN  IF FactoryKeywords \subseteq PipelineInitParameters[class]
             THEN PipelineOut(FALSE, class, ClassifierMethods[button_type], got)
             ELSE PipelineOut(TRUE, "None", {}, got)

\* The instances the container holds before a call.
ContainerInstances ==
    IF call.op = "get_pipeline" THEN call.out.instances ELSE {}

\* One call of get_pipeline, after init_container and any earlier calls.
GetPipeline(button_type, risk_category) ==
    /\ call.op \in {"init", "get_pipeline"}
    /\ started < MaxRequests
    /\ started' = started + 1
    /\ call' = [op |-> "get_pipeline", button_type |-> button_type,
                risk_category |-> risk_category,
                out |-> get_pipeline(button_type, ContainerInstances)]
    /\ UNCHANGED <<items_list, container, req>>

NextGetPipeline ==
    \E button_type \in ButtonTypes \cup {"unknown"},
       risk_category \in RiskCategoryArguments :
        GetPipeline(button_type, risk_category)

SpecGetPipeline == InitLoad /\ [][NextGetPipeline]_vars

-----------------------------------------------------------------------------
(* The delimiter round trip: _preprocess_items_with_hashtags, then         *)
(* _remove_hashtag_separators on the wrapped entry.                        *)

EntryChars == {"a", "b", Hash}

\* Vocabulary entries of up to MaxLen characters.
Entries == UNION {[1..n -> EntryChars] : n \in 0..MaxLen}

\* _remove_hashtag_separators(_preprocess_items_with_hashtags([e])[0])
RoundTrip(e) ==
    /\ call.op = "init"
    /\ call' = [op |-> "round_trip", entry |-> e,
                wrapped |-> preprocess_items_with_hashtags(<<e>>)[1],
                out |-> remove_hashtag_separators(
                            preprocess_items_with_hashtags(<<e>>)[1])]
    /\ UNCHANGED <<items_list, container, started, req>>

NextRoundTrip == \E e \in Entries : RoundTrip(e)

SpecRoundTrip == InitLoad /\ [][NextRoundTrip]_vars

-----------------------------------------------------------------------------
(* Properties                                                              *)

IsPrefix(s, t) == Len(s) <= Len(t) /\ SubSeq(t, 1, Len(s)) = s

Ran(r, stage) == stage \in Range(req[r].completed_stages)

\* A stage of request r raised: it was started and never completed.
Raised(r) ==
    /\ req[r].pc = "returned"
    /\ req[r].started_stages # req[r].completed_stages

AllStages == <<StLoad, StNormalize, StPreProcess, StLoadItems, StClassify,
               StFilter, StToModels, StMakeMd>>

ExpectedVocabulary(df) ==
    LET cells == ColumnCells(df)
        IsFirst(i) ==
            /\ cells[i].kind = "str"
            /\ cells[i].s # <<>>
            /\ \A j \in 1..(i - 1) : cells[j] # cells[i]
        firsts == SelectSeq([i \in DOMAIN cells |-> i], IsFirst)
    IN  IF ~df.has_column \/ (\E i \in DOMAIN cells : cells[i].kind = "list")
        THEN <<>>
        ELSE [k \in DOMAIN firsts |-> cells[firsts[k]].s]

\* C2: after load_items(df) the vocabulary the next classify uses is the
\* duplicate-free list of the non-empty strings of df's designated column,
\* empty when the column is absent or the extraction fails, whatever an
\* earlier load left in the classifier.
C2_LoadItemsReplacesVocabulary ==
    call.op = "load_items" => items_list[1] = ExpectedVocabulary(call.df)

C6_EmptyPreFilterReturnsEmptyAnswer ==
    \A r \in Slots :
        (Ran(r, StPreProcess) /\ Len(req[r].processed_df.rows) = 0)
        => /\ req[r].pc = "returned"
           /\ req[r].outcome = "empty"
           /\ req[r].answer.total_found = 0
           /\ req[r].answer.items = <<>>
           /\ req[r].answer.query = req[r].question
           /\ req[r].answer.text \in {"not_found", "not_found_in_category"}
           /\ req[r].started_stages = <<StLoad, StNormalize, StPreProcess>>
           /\ req[r].llm_classify = 0
           /\ req[r].llm_answer = 0

C6_Witness ==
    \E r \in Slots :
        /\ req[r].pc = "returned"
        /\ req[r].kind = "risks"
        /\ Len(req[r].df.rows) > 0
        /\ Ran(r, StPreProcess)
        /\ Len(req[r].processed_df.rows) = 0
        /\ req[r].outcome = "empty"

\* C7: when classify returns the empty string, process returns the empty
\* answer and neither filter_items nor make_md runs; the unfiltered frame is
\* never the result.
C7_NoEntityReturnsEmptyAnswer ==
    \A r \in Slots :
        (Ran(r, StClassify) /\ req[r].best_item = <<>>)
        => /\ req[r].pc = "returned"
           /\ req[r].outcome = "empty"
           /\ req[r].answer.total_found = 0
           /\ req[r].answer.items = <<>>
           /\ StFilter \notin Range(req[r].started_stages)
           /\ StMakeMd \notin Range(req[r].started_stages)

FirstMaxIndex(matches) ==
    CHOOSE i \in DOMAIN matches :
        /\ \A j \in DOMAIN matches : matches[j].score <= matches[i].score
        /\ \A j \in 1..(i - 1) : matches[j].score < matches[i].score

C10_WitnessBackendRaises ==
    /\ call.op = "classify"
    /\ call.items # <<>>
    /\ call.backend.kind = "raise"
    /\ call.out = ClassifyOut(<<>>, FALSE, 1)

\* The rows of df whose designated column holds a string equal to
\* item_value when letter case is ignored.
RowsEqualIgnoringCase(df, item_value) ==
    SelectSeq(df.rows,
              LAMBDA row : /\ row.name.kind = "str"
                           /\ Lower(row.name.s) = Lower(item_value))

C12_NoMatchDiffersFromNoFilter ==
    (call.op = "filter_items" /\ ~call.out.raised)
    => /\ (/\ call.item_value # <<>>
           /\ RowsEqualIgnoringCase(call.df, call.item_value) = <<>>)
          => (call.out.df.rows = <<>> /\ call.out.scores = <<>>)
       /\ call.item_value = <<>>
          => (call.out.df = call.df /\ call.out.scores = <<>>)

\* C13: filtering the frame filter_items returned by the same entity again
\* returns the same rows, also when the first result is empty.
C13_FilterIsIdempotent ==
    call.op = "filter_again"
    => /\ ~call.out.raised
       /\ call.out.df.rows = call.first.df.rows

\* The first call found no row and returned the frame without columns.
C13_Witness ==
    /\ call.op = "filter_again"
    /\ call.df.has_column
    /\ Len(call.df.rows) = 2
    /\ call.item_value = <<"c">>
    /\ call.first.df = EmptyFrame
    /\ call.out.df.rows = <<>>

\* The first call kept one of two rows.
C13_WitnessMatch ==
    /\ call.op = "filter_again"
    /\ Len(call.df.rows) = 2
    /\ Len(call.first.df.rows) = 1
    /\ call.out.df.rows = call.first.df.rows

SameScore(x, y) == x.num * y.den = y.num * x.den

ScoreAtMost(x, y) == x.num * y.den <= y.num * x.den

\* The score lies in [0, 1], is 0 for an empty list or text, and a text that
\* matches every keyword another text matches scores at least as high.
ScoreIsBoundedAndMonotone ==
    /\ call.out.den > 0
    /\ 0 <= call.out.num
    /\ call.out.num <= call.out.den
    /\ (call.text = <<>> \/ call.keywords = <<>>) => call.out.num = 0
    /\ \A other \in Texts :
           (/\ other # <<>>
            /\ MatchedKeywords(call.text, call.keywords)
                   \subseteq MatchedKeywords(other, call.keywords))
           => ScoreAtMost(call.out,
                          calculate_relevance_score(other, call.keywords))

\* C18 as stated: the score is the number of keywords that occur as a
\* case-insensitive substring of the text, divided by the number of keywords;
\* it lies in [0, 1], is 0 for an empty list or text and never decreases when
\* one more keyword matches.
C18_ScoreCountsSubstringKeywords ==
    call.op = "calculate_relevance_score"
    => /\ ScoreIsBoundedAndMonotone
       /\ (call.text # <<>> /\ call.keywords # <<>>)
          => SameScore(call.out,
                 Score(Cardinality({i \in DOMAIN call.keywords :
                           Contains(Lower(call.text), Lower(call.keywords[i]))}),
                       Len(call.keywords)))

\* C18 amended: a keyword counts when its lower-cased form with the
\* surrounding whitespace removed is non-empty and occurs in the lower-cased
\* text; the score is that count divided by the number of keywords, lies in
\* [0, 1], is 0 for an empty list or text and never decreases when one more
\* keyword matches.
C18_ScoreCountsStrippedNonEmptyKeywords ==
    call.op = "calculate_relevance_score"
    => /\ ScoreIsBoundedAndMonotone
       /\ (call.text # <<>> /\ call.keywords # <<>>)
          => SameScore(call.out,
                 Score(Cardinality({i \in DOMAIN call.keywords :
                           LET k == Lower(call.keywords[i])
                           IN  \E j \in 1..Len(k), l \in 1..Len(k) :
                                   /\ j <= l
                                   /\ \A p \in 1..Len(k) :
                                          (p < j \/ p > l) => k[p] = Space
                                   /\ k[j] # Space /\ k[l] # Space
                                   /\ Contains(Lower(call.text), SubSeq(k, j, l))}),
                       Len(call.keywords)))

\* One keyword of two matches, in another case and with a leading blank.
C18_Witness ==
    /\ call.op = "calculate_relevance_score"
    /\ call.text = <<"A", "b">>
    /\ call.keywords = <<<<" ", "a">>, <<>>>>
    /\ call.out = Score(1, 2)

\* The scored rows of the tool call in call.
CallScored ==
    IF call.tool = "_shared"
    THEN ScoreRowsLemmatized(call.df, call.keywords)
    ELSE ScoreRows(call.df, call.keywords)

ScoreAt(scored, idx) == (CHOOSE x \in Range(scored) : x.idx = idx).relevance_score

ReturnedIds == {call.out.df.rows[k].idx : k \in DOMAIN call.out.df.rows}

\* C16: when a row of the input scores above 0, execute returns exactly
\* min(top_n, number of rows with score > 0) rows of the input; every
\* returned row scores above 0, no omitted row scores strictly higher than a
\* returned one, the rows are in non-increasing score order and rows of
\* equal score keep their input order.
C16_ToolReturnsTopRowsInStableOrder ==
    (/\ call.op = "execute"
     /\ call.df.has_text
     /\ call.keywords # <<>>
     /\ Positive(CallScored) # <<>>)
    => LET scored == CallScored
           rows == call.out.df.rows
       IN  /\ ~call.out.raised
           /\ Len(rows) = Min(call.top_n, Len(Positive(scored)))
           /\ \A k \in DOMAIN rows : rows[k] \in Range(call.df.rows)
           /\ \A k \in DOMAIN rows : ScoreAt(scored, rows[k].idx).num > 0
           /\ \A o \in DOMAIN scored, k \in DOMAIN rows :
                  scored[o].idx \notin ReturnedIds
                  => ~ScoreGreater(scored[o].relevance_score,
                                   ScoreAt(scored, rows[k].idx))
           /\ \A i \in DOMAIN rows, j \in DOMAIN rows :
                  i < j => /\ ~ScoreGreater(ScoreAt(scored, rows[j].idx),
                                            ScoreAt(scored, rows[i].idx))
                           /\ SameScore(ScoreAt(scored, rows[i].idx),
                                        ScoreAt(scored, rows[j].idx))
                              => rows[i].idx < rows[j].idx

\* Both rows score above 0, the second higher than the first, and top_n = 1
\* keeps the second only.
C16_Witness ==
    /\ call.op = "execute"
    /\ call.top_n = 1
    /\ Len(call.df.rows) = 2
    /\ Len(Positive(CallScored)) = 2
    /\ ScoreGreater(ScoreAt(CallScored, 1), ScoreAt(CallScored, 0))
    /\ Len(call.out.df.rows) = 1
    /\ call.out.df.rows[1].idx = 1

\* The rows tie and come back in their input order.
C16_WitnessTie ==
    /\ call.op = "execute"
    /\ Len(call.df.rows) = 2
    /\ Len(call.out.df.rows) = 2
    /\ SameScore(ScoreAt(CallScored, 0), ScoreAt(CallScored, 1))
    /\ ScoreAt(CallScored, 0).num > 0
    /\ call.out.df.rows[1].idx = 0

\* C17: if no row scores above 0, or the text column is absent, or the frame
\* is empty, or the keyword list is empty, execute returns the first top_n
\* rows of the frame it was given with an empty score map, and never an empty
\* frame when the input had rows.
C17_ToolFallsBackToFirstRows ==
    (/\ call.op = "execute"
     /\ \/ call.df.rows = <<>>
        \/ call.keywords = <<>>
        \/ ~call.df.has_text
        \/ Positive(CallScored) = <<>>)
    => /\ ~call.out.raised
       /\ call.out.df = head(call.df, call.top_n)
       /\ call.out.scores = <<>>
       /\ call.df.rows # <<>> => call.out.df.rows # <<>>

\* The strategy the table gives a dataset kind, "absent" for a kind it does
\* not name.
ConfiguredStrategy ==
    IF call.dataset_kind \in DOMAIN call.table
    THEN call.table[call.dataset_kind]
    ELSE "absent"

\* C19: for a dataset kind whose configured strategy is none, llm, both or
\* absent from the table, the dispatcher does not raise, returns the input
\* dataset unchanged with an empty score map and invokes neither the keyword
\* extractor nor a tool; only the keybert strategy extracts keywords (once)
\* and runs a tool.
C19_OnlyKeybertStrategyFilters ==
    (call.op = "apply_strategy")
    => /\ ConfiguredStrategy \in {"none", "llm", "both", "absent"}
          => /\ ~call.out.raised
             /\ call.out.df = call.df
             /\ call.out.source = call.df
             /\ call.out.scores = <<>>
             /\ call.out.extractor_calls = 0
             /\ call.out.tool_calls = 0
       /\ (call.out.extractor_calls > 0 \/ call.out.tool_calls > 0)
          => ConfiguredStrategy = "keybert"
       /\ ConfiguredStrategy = "keybert" => call.out.extractor_calls = 1

\* The strategy of the kind is llm, and the keyword strategy would have
\* dropped a row.
C19_Witness ==
    /\ call.op = "apply_strategy"
    /\ call.dataset_kind = "risks"
    /\ ConfiguredStrategy = "llm"
    /\ call.registry = [name \in {ToolName} |-> "_shared"]
    /\ Len(call.df.rows) = 2
    /\ select_and_execute(call.df, call.extracted, call.registry, NoKwargs).scores # <<>>
    /\ Len(select_and_execute(call.df, call.extracted, call.registry, NoKwargs).df.rows) = 1
    /\ call.out.df = call.df
    /\ call.out.scores = <<>>

\* The kind is absent from the table.
C19_WitnessAbsent ==
    /\ call.op = "apply_strategy"
    /\ call.dataset_kind = "unknown"
    /\ Len(call.df.rows) = 2
    /\ call.out.df = call.df

\* The keybert strategy ran the tool.
C19_WitnessKeybert ==
    /\ call.op = "apply_strategy"
    /\ ConfiguredStrategy = "keybert"
    /\ call.out.tool_calls = 1
    /\ call.out.scores # <<>>

\* The exception a tool call of select_and_execute ends in, if any.
ToolExecutionRaises ==
    /\ extract_keywords_with_keybert(call.extracted) # <<>>
    /\ get_tool(call.registry, ToolName) # NoTool
    /\ tool_execute(get_tool(call.registry, ToolName), call.df,
                    extract_keywords_with_keybert(call.extracted),
                    kwargs_get_top_n(call.kwargs)).raised

\* C20: select_and_execute never raises; when the extractor returns no
\* keywords or raises, when the registry has no tool search_by_keywords, or
\* when the execution of the tool raises, it returns the dataset it was
\* given, every row of it and unmodified, with an empty score map.
C20_SelectAndExecuteFailsOpen ==
    (call.op = "select_and_execute")
    => /\ ~call.out.raised
       /\ (\/ call.extracted.raised
           \/ call.extracted.keywords = <<>>
           \/ ToolName \notin DOMAIN call.registry
           \/ ToolExecutionRaises)
          => /\ call.out.df = call.df
             /\ call.out.source = call.df
             /\ call.out.scores = <<>>

\* The registered tool raises on a frame whose rows match the keywords.
C20_Witness ==
    /\ call.op = "select_and_execute"
    /\ call.registry = tool_registry
    /\ ToolExecutionRaises
    /\ Len(call.df.rows) = 2
    /\ call.df.has_text
    /\ call.out.tool_calls = 1
    /\ call.out.same_object
    /\ call.out.df = call.df

\* The extractor raises.
C20_WitnessExtractor ==
    /\ call.op = "select_and_execute"
    /\ call.extracted.raised
    /\ Len(call.df.rows) = 2
    /\ call.out.same_object

\* The registry holds no tool.
C20_WitnessNoTool ==
    /\ call.op = "select_and_execute"
    /\ call.extracted.keywords # <<>>
    /\ DOMAIN call.registry = {}
    /\ Len(call.df.rows) = 2
    /\ call.out.same_object

StageOps ==
    {"filter_items", "filter_again", "execute", "select_and_execute",
     "apply_strategy"}

\* C14: in every (dataset, score map) pair returned by filter_items, by a
\* keyword tool or by the dispatcher, every key of the score map is the
\* index label of a row of the returned dataset, and no key maps to 0.
C14_ScoreKeysAreReturnedRowsWithPositiveScore ==
    (call.op \in StageOps /\ ~call.out.raised)
    => \A key \in DOMAIN call.out.scores :
           /\ key \in {call.out.df.rows[i].idx : i \in DOMAIN call.out.df.rows}
           /\ ScoreGreater(call.out.scores[key], Score(0, 1))

\* A tool scores two rows above 0 and one of them is cut by top_n: the map
\* has the returned row only.
C14_Witness ==
    /\ call.op = "execute"
    /\ call.top_n = 1
    /\ Len(Positive(CallScored)) = 2
    /\ Len(call.out.df.rows) = 1
    /\ DOMAIN call.out.scores = {call.out.df.rows[1].idx}

\* The dispatcher returns the rows and scores of the tool it ran.
C14_WitnessDispatcher ==
    /\ call.op = "select_and_execute"
    /\ Len(call.df.rows) = 2
    /\ Len(call.out.df.rows) = 1
    /\ DOMAIN call.out.scores = {call.out.df.rows[1].idx}

\* filter_items drops a row and scores the other.
C14_WitnessFilter ==
    /\ call.op = "filter_items"
    /\ Len(call.df.rows) = 2
    /\ Len(call.out.df.rows) = 1
    /\ DOMAIN call.out.scores = {call.out.df.rows[1].idx}

\* The dataset a stage received, as it is after the call.
CallSource ==
    IF call.op = "filter_items" THEN call.source ELSE call.out.source

\* select_and_execute took one of its fail-open paths.
FailedOpen ==
    \/ extract_keywords_with_keybert(call.extracted) = <<>>
    \/ get_tool(call.registry, ToolName) = NoTool
    \/ ToolExecutionRaises

\* C15: filter_items, a tool's execute and select_and_execute
\* leave the dataset they receive as it was, and the dataset they return is
\* never the object they received.
C15_StagesReturnSeparateDataset ==
    (call.op \in {"filter_items", "execute", "select_and_execute"})
    => /\ CallSource = call.df
       /\ ~call.out.raised => ~call.out.same_object

\* What holds of the three stages: none modifies the dataset it receives;
\* filter_items and execute return a dataset of their own, and
\* select_and_execute returns the object it was given exactly on its
\* fail-open paths.
StagesLeaveSourceUnchanged ==
    (call.op \in {"filter_items", "execute", "select_and_execute"})
    => /\ CallSource = call.df
       /\ (call.op # "select_and_execute" /\ ~call.out.raised)
          => ~call.out.same_object
       /\ call.op = "select_and_execute"
          => (call.out.same_object <=> FailedOpen)

\* What the execute of the tool registered under search_by_keywords
\* produces for the dataset and the keywords of the call.
RegisteredToolResult ==
    LET tool == get_tool(call.registry, ToolName)
        keywords == extract_keywords_with_keybert(call.extracted)
        top_n == kwargs_get_top_n(call.kwargs)
    IN  IF tool = "_shared"
        THEN execute_shared(call.df, keywords, top_n)
        ELSE execute(call.df, keywords, top_n)

\* C21: when the extractor returns a non-empty keyword list and
\* search_by_keywords is registered, select_and_execute returns exactly the
\* dataset and score map the registered tool's execute produces for that
\* dataset and those keywords.
C21_SelectAndExecuteReturnsToolResult ==
    (/\ call.op = "select_and_execute"
     /\ extract_keywords_with_keybert(call.extracted) # <<>>
     /\ ToolName \in DOMAIN call.registry)
    => /\ ~call.out.raised
       /\ call.out.df = RegisteredToolResult.df
       /\ call.out.scores = RegisteredToolResult.scores

\* C22: when the generation backend fails while the answer is composed (the
\* call raises or yields no text), process returns an answer whose text is
\* the non-empty templated fallback built from the filtered records, with
\* those records as items and their count as total_found.
C22_FailedCompositionGivesFallbackAnswer ==
    \A r \in Slots :
        (/\ req[r].pc = "returned"
         /\ Ran(r, StMakeMd)
         /\ req[r].completion \in {"empty", "none", "raise"})
        => /\ req[r].outcome = "answer"
           /\ req[r].answer.text = "fallback"
           /\ req[r].answer.items = req[r].items
           /\ req[r].answer.total_found = Len(req[r].items)

RecordsOf(idx) == {k \in DOMAIN call.out : call.out[k].idx = idx}

\* C24: whatever rows fail to convert, _dataframe_to_models returns exactly
\* one record for each row whose conversion succeeds, carrying the row's
\* values and its score, and none for a failing row.
C24_ProjectionSkipsFailingRows ==
    (call.op = "dataframe_to_models")
    => /\ \A i \in DOMAIN call.df.rows :
              LET row == call.df.rows[i]
              IN  IF row.valid
                  THEN /\ Cardinality(RecordsOf(row.idx)) = 1
                       /\ \A k \in RecordsOf(row.idx) :
                              call.out[k] =
                                  create_model_instance(
                                      row, ScoreOf(call.relevance_scores, row.idx))
                  ELSE RecordsOf(row.idx) = {}
       /\ Len(call.out) =
              Cardinality({i \in DOMAIN call.df.rows : call.df.rows[i].valid})

\* The first row fails to convert, the second becomes the only record.
C24_Witness ==
    /\ call.op = "dataframe_to_models"
    /\ Len(call.df.rows) = 2
    /\ ~call.df.rows[1].valid
    /\ call.df.rows[2].valid
    /\ call.relevance_scores # <<>>
    /\ Len(call.out) = 1
    /\ call.out[1].idx = call.df.rows[2].idx

\* The position in the call's frame of the row labelled idx.
PositionOf(idx) == CHOOSE i \in DOMAIN call.df.rows : call.df.rows[i].idx = idx

\* C25: the records come in non-increasing order of relevance score, a
\* record without a score counting as 0, and records of equal (or missing)
\* score keep the order their rows have in the dataset.
C25_RecordsSortedByScoreStably ==
    (call.op = "dataframe_to_models")
    => \A k, l \in DOMAIN call.out :
           k < l
           => /\ ~ScoreGreater(call.out[l].relevance_score,
                               call.out[k].relevance_score)
              /\ ~ScoreGreater(call.out[k].relevance_score,
                               call.out[l].relevance_score)
                 => PositionOf(call.out[k].idx) < PositionOf(call.out[l].idx)

\* The second row scores higher than the first and comes first.
C25_Witness ==
    /\ call.op = "dataframe_to_models"
    /\ Len(call.out) = 2
    /\ ScoreGreater(ScoreOf(call.relevance_scores, 1),
                    ScoreOf(call.relevance_scores, 0))
    /\ call.out[1].idx = 1
    /\ call.out[2].idx = 0

\* A record without a score and a record of score 0 keep their order.
C25_WitnessTie ==
    /\ call.op = "dataframe_to_models"
    /\ Len(call.out) = 2
    /\ DOMAIN call.relevance_scores = {1}
    /\ call.relevance_scores[1] = Score(0, MaxKeywords)
    /\ call.out[1].idx = 0
    /\ call.out[2].idx = 1

\* C26: for each of the four button types get_pipeline returns a pipeline
\* instance without raising, and the classifier service of that pipeline
\* has get_column_name and get_item_type.
C26_GetPipelineReturnsPipeline ==
    (call.op = "get_pipeline" /\ call.button_type \in ButtonTypes)
    => /\ ~call.out.raised
       /\ call.out.pipeline = BUTTON_TO_PIPELINE[call.button_type]
       /\ {"get_column_name", "get_item_type"} \subseteq call.out.classifier_methods

\* C27: stripping the delimiters from the wrapped form of a vocabulary
\* entry returns the entry exactly, also for an entry that starts or ends
\* with '#'.
C27_DelimiterRoundTrip ==
    (call.op = "round_trip") => call.out = call.entry

C29_WitnessEarlyExit ==
    \E r \in Slots :
        /\ req[r].kind = "base"
        /\ req[r].pc = "returned"
        /\ req[r].completed_stages = SubSeq(AllStages, 1, StClassify)
        /\ req[r].outcome = "empty"
        /\ req[r].log = <<"start", "end_ok">>

\* Normal completion.
C29_WitnessCompleted ==
    \E r \in Slots :
        /\ req[r].kind = "base"
        /\ req[r].completed_stages = AllStages
        /\ req[r].log = <<"start", "end_ok">>

\* C30: the dataset a keyword tool returns consists of rows of the input
\* dataset with exactly the input's columns and values, on the scored path
\* and on the fallback path: no score or lemmatization column is added.
C30_ToolAddsNoHelperColumn ==
    (call.op = "execute" /\ ~call.out.raised)
    => /\ call.out.df.helper = call.df.helper
       /\ \A k \in DOMAIN call.out.df.rows :
              call.out.df.rows[k] \in Range(call.df.rows)
       /\ call.out.df.rows # <<>> => call.out.df.has_text = call.df.has_text

====
